---- MODULE Spec2Model ----
(***************************************************************************)
(* Booking analytics of the train booking backend                          *)
(* (backend/app/routers/analytics.py over the tables of                    *)
(* backend/app/models.py).                                                 *)
(*                                                                         *)
(* The relational store is the booking table plus the five tables it       *)
(* references.  Every analytics handler loads the joined rows of a date    *)
(* window with get_bookings_df and aggregates them with pandas.  The       *)
(* dashboard handler calls four of the handlers one after the other, each  *)
(* with a store query of its own.                                          *)
(* Every request runs with a session that get_db (backend/app/db.py)       *)
(* makes before the handler is called and closes when it has ended.        *)
(*                                                                         *)
(* Conventions                                                             *)
(*   - a calendar date is its day number in 2024 (1 = 2024-01-01);         *)
(*   - Python None, SQL NULL and the pandas missing value are None: a      *)
(*     nullable value is None or Some(v);                                  *)
(*   - a DataFrame is the set of its rows (each row keeps the booking id,  *)
(*     so equal bookings stay distinct rows); the order of SQL rows is     *)
(*     not used by any aggregation, which all sort by group key;           *)
(*   - a float holding an integer sum is that integer; a mean is the       *)
(*     reduced fraction <<numerator, denominator>>, NaN when pandas        *)
(*     yields NaN; a percentage rounded to 2 decimals is its number of     *)
(*     hundredths.                                                         *)
(*   - ticket_no and seat_no are selected but read by no aggregation and   *)
(*     are left out of the rows;                                           *)
(*   - pandas defaults: groupby and value_counts drop the rows whose key   *)
(*     is missing, sum and mean skip missing values (the sum of none is 0, *)
(*     the mean of none is NaN), count counts the values present, and a    *)
(*     string concatenated with a missing value is missing;                *)
(*   - the separator of the route label is written " -> ".                 *)
(***************************************************************************)
EXTENDS Integers, Sequences, FiniteSets, TLC

VARIABLES
    booking,   \* the booking table: a set of rows
    next_id,   \* the booking table's autoincrement counter
    today,     \* date.today()
    resp,      \* what the last finished request returned
    pc,        \* position of the dashboard request in flight
    days,      \* the dashboard request's days parameter
    window,    \* <<start_date, end_date>> computed by the dashboard
    parts,     \* sub-view results the dashboard has collected so far
    params,    \* the <<start_date, end_date>> each dashboard sub-query ran with
    queries,   \* store queries issued by the dashboard request in flight
    last_df,   \* the DataFrame (df) the dashboard's latest sub-call loaded
    db         \* the session get_db made for the latest request: None before
               \* the first request, else Some(n), n the calls of close() on it

vars == <<booking, next_id, today, resp, pc, days, window, parts, params, queries,
          last_df, db>>

(***************************************************************************)
(* Nullable values                                                         *)
(***************************************************************************)
None == <<>>
Some(v) == <<v>>
Val(x) == x[1]
NaN == <<>>

(***************************************************************************)
(* Bounds of the model                                                     *)
(***************************************************************************)
\* the day the model starts on: 2024-01-31, so the next day is in February
Today0 == 31
\* rows of a store the view handlers are applied to
MaxBookings == 3
\* largest limit parameter tried (the interface allows 1..50)
MaxLimit == 2
\* largest days parameter tried (the interface allows 1..365)
MaxDays == 2
\* how many times the calendar date advances
MaxAdvance == 1
\* how many bookings are inserted while the dashboard is observed
MaxInserts == 2
\* an id no referenced table holds
Dangling == 9

(***************************************************************************)
(* Program constants                                                       *)
(***************************************************************************)
DefaultDays == 30
DashboardLimit == 10
TopRoutesByRevenue == 10

(***************************************************************************)
(* The referenced tables.  Primary keys are unique; every other column is  *)
(* nullable (models.py declares no nullable=False).  Row 3 of              *)
(* train_station and of carriage_class has a NULL name; no table has a     *)
(* row with id 9, so a booking that references 9 dangles.                  *)
(***************************************************************************)
train_station ==
    { [id |-> 1, station_name |-> Some("A")],
      [id |-> 2, station_name |-> Some("B")],
      [id |-> 3, station_name |-> None] }

carriage_class ==
    { [id |-> 1, class_name |-> Some("First")],
      [id |-> 2, class_name |-> Some("Economy")],
      [id |-> 3, class_name |-> None] }

booking_status ==
    { [id |-> 1, name |-> Some("Confirmed")] }

passenger ==
    { [id |-> 1, first_name |-> Some("Ann"), last_name |-> Some("Lee"),
       email_address |-> Some("ann@x")],
      [id |-> 2, first_name |-> Some("Bob"), last_name |-> Some("Ray"),
       email_address |-> Some("bob@x")] }

train_journey ==
    { [id |-> 1, name |-> Some("J1")] }

\* Lexicographic order of the strings that serve as group keys.
StrOrder ==
    <<"A", "A -> A", "A -> B", "Ann Lee", "B", "B -> A", "B -> B", "Bob Ray",
      "Economy", "First", "J1", "ann@x", "bob@x">>

StrRank(s) == CHOOSE i \in 1..Len(StrOrder) : StrOrder[i] = s

(***************************************************************************)
(* A booking row (models.Booking) without its id.                          *)
(***************************************************************************)
Bk(d, a, s1, s2, c, st, p, j) ==
    [booking_date |-> d, amount_paid |-> a, starting_station_id |-> s1,
     ending_station_id |-> s2, ticket_class_id |-> c, status_id |-> st,
     passenger_id |-> p, train_journey_id |-> j]

WithId(i, b) ==
    [id |-> i, booking_date |-> b.booking_date, amount_paid |-> b.amount_paid,
     starting_station_id |-> b.starting_station_id,
     ending_station_id |-> b.ending_station_id,
     ticket_class_id |-> b.ticket_class_id, status_id |-> b.status_id,
     passenger_id |-> b.passenger_id, train_journey_id |-> b.train_journey_id]

\* Bookings the view handlers are tried on: one base booking and its
\* variations in date, amount, route, class, passenger, and one dangling
\* reference per foreign key.
BookingInputs ==
    << Bk(Some(Today0), Some(1), 1, 2, 1, 1, 1, 1),
       Bk(Some(Today0 - 1), Some(1), 1, 2, 1, 1, 1, 1),
       Bk(Some(Today0 - DefaultDays - 1), Some(1), 1, 2, 1, 1, 1, 1),
       Bk(None, Some(1), 1, 2, 1, 1, 1, 1),
       Bk(Some(Today0), Some(2), 1, 2, 1, 1, 1, 1),
       Bk(Some(Today0), None, 1, 2, 1, 1, 1, 1),
       Bk(Some(Today0), Some(1), 2, 1, 1, 1, 1, 1),
       Bk(Some(Today0), Some(1), 3, 2, 1, 1, 1, 1),
       Bk(Some(Today0), Some(2), 1, 2, 2, 1, 2, 1),
       Bk(Some(Today0), Some(1), 1, 2, 3, 1, 1, 1),
       Bk(Some(Today0), Some(1), Dangling, 2, 1, 1, 1, 1),
       Bk(Some(Today0), Some(1), 1, Dangling, 1, 1, 1, 1),
       Bk(Some(Today0), Some(1), 1, 2, Dangling, 1, 1, 1),
       Bk(Some(Today0), Some(1), 1, 2, 1, Dangling, 1, 1),
       Bk(Some(Today0), Some(1), 1, 2, 1, 1, Dangling, 1),
       Bk(Some(Today0), Some(1), 1, 2, 1, 1, 1, Dangling) >>

\* The stores built from BookingInputs: ids 1..n, inputs in index order.
StoresOf(n) ==
    { { WithId(i, BookingInputs[f[i]]) : i \in 1..n } :
        f \in { g \in [1..n -> 1..Len(BookingInputs)] :
                  \A i \in 1..n : \A k \in 1..n : i <= k => g[i] <= g[k] } }

Stores == UNION { StoresOf(n) : n \in 0..MaxBookings }

\* date arguments of a request: absent, yesterday or today
ArgDates == {None, Some(Today0 - 1), Some(Today0)}

(***************************************************************************)
(* get_date_range and get_bookings_df                                      *)
(***************************************************************************)
get_date_range(t, n) == <<t - n, t>>

\* Window with a missing bound alone replaced by its default
WindowPartial(t, start_date, end_date) ==
    <<IF start_date = None THEN get_date_range(t, DefaultDays)[1] ELSE Val(start_date),
      IF end_date = None THEN get_date_range(t, DefaultDays)[2] ELSE Val(end_date)>>

\* `not start_date or not end_date`: a date object is always truthy
Window(t, start_date, end_date) ==
    IF start_date = None \/ end_date = None
    THEN get_date_range(t, DefaultDays)
    ELSE <<Val(start_date), Val(end_date)>>

\* Between with the end of the window left out (>= start AND < end)
BetweenHalfOpen(d, w) == d # None /\ w[1] <= Val(d) /\ Val(d) < w[2]

\* b.booking_date BETWEEN start AND end: NULL is never between
Between(d, w) == d # None /\ w[1] <= Val(d) /\ Val(d) <= w[2]

Concat(a, sep, b) == IF a = None \/ b = None THEN None ELSE Some(Val(a) \o sep \o Val(b))

\* the joined row with the derived columns route and passenger_name
Row(b, s1, s2, cc, bs, p, tj) ==
    [id |-> b.id,
     booking_date |-> Val(b.booking_date),
     amount_paid |-> b.amount_paid,
     origin_station |-> s1.station_name,
     destination_station |-> s2.station_name,
     class_name |-> cc.class_name,
     status |-> bs.name,
     email_address |-> p.email_address,
     journey_name |-> tj.name,
     route |-> Concat(s1.station_name, " -> ", s2.station_name),
     passenger_name |-> Concat(p.first_name, " ", p.last_name)]

Match(table, fk) == {r \in table : r.id = fk}

\* JoinRows with train_journey joined by LEFT JOIN: a booking without a
\* journey keeps its row, with a NULL journey name
JoinRowsLeftJourney(b) ==
    { Row(b, s1, s2, cc, bs, p, tj) :
        s1 \in Match(train_station, b.starting_station_id),
        s2 \in Match(train_station, b.ending_station_id),
        cc \in Match(carriage_class, b.ticket_class_id),
        bs \in Match(booking_status, b.status_id),
        p \in Match(passenger, b.passenger_id),
        tj \in IF Match(train_journey, b.train_journey_id) = {}
               THEN {[id |-> b.train_journey_id, name |-> None]}
               ELSE Match(train_journey, b.train_journey_id) }

\* FROM booking b JOIN ... ON ...: the rows one booking joins to
JoinRows(b) ==
    { Row(b, s1, s2, cc, bs, p, tj) :
        s1 \in Match(train_station, b.starting_station_id),
        s2 \in Match(train_station, b.ending_station_id),
        cc \in Match(carriage_class, b.ticket_class_id),
        bs \in Match(booking_status, b.status_id),
        p \in Match(passenger, b.passenger_id),
        tj \in Match(train_journey, b.train_journey_id) }

get_bookings_df(store, t, start_date, end_date) ==
    LET w == Window(t, start_date, end_date)
    IN  UNION { JoinRows(b) : b \in {x \in store : Between(x.booking_date, w)} }

(***************************************************************************)
(* pandas primitives                                                       *)
(***************************************************************************)
RECURSIVE GCD(_, _)
GCD(a, b) == IF b = 0 THEN a ELSE GCD(b, a % b)

\* an exact quotient of two integers, as a float holds it
Frac(n, d) == LET g == GCD(n, d) IN <<n \div g, d \div g>>

RECURSIVE SumAmount(_)
\* Series.sum(): missing values are skipped, the sum of none is 0
SumAmount(rows) ==
    IF rows = {} THEN 0
    ELSE LET r == CHOOSE x \in rows : TRUE
         IN  (IF r.amount_paid = None THEN 0 ELSE Val(r.amount_paid))
             + SumAmount(rows \ {r})

\* Series.count(): the values that are not missing
CountAmount(rows) == Cardinality({r \in rows : r.amount_paid # None})

\* Series.mean(): the mean of the values that are not missing, NaN of none
MeanAmount(rows) ==
    IF CountAmount(rows) = 0 THEN NaN
    ELSE Frac(SumAmount(rows), CountAmount(rows))

\* lexicographic order of two integer tuples of one length
KeyLt(a, b) ==
    \E i \in 1..Len(a) : a[i] < b[i] /\ \A j \in 1..(i - 1) : a[j] = b[j]

RECURSIVE SortKeys(_)
\* groupby(sort=True): the group keys in ascending order
SortKeys(S) ==
    IF S = {} THEN <<>>
    ELSE LET m == CHOOSE x \in S : \A y \in S : y = x \/ KeyLt(x, y)
         IN  <<m>> \o SortKeys(S \ {m})

\* the group key of a row for the columns cols: None when any of them is
\* missing (groupby drops such rows: dropna=True), else the ranks
GroupKey(r, cols) ==
    IF \E i \in 1..Len(cols) : cols[i] # "booking_date" /\ r[cols[i]] = None THEN None
    ELSE [i \in 1..Len(cols) |->
            IF cols[i] = "booking_date" THEN r[cols[i]] ELSE StrRank(Val(r[cols[i]]))]

GroupKeys(df, cols) == SortKeys({GroupKey(r, cols) : r \in df} \ {None})

Group(df, cols, k) == {r \in df : GroupKey(r, cols) = k}

\* value_counts().to_dict(): the count of every value that is not missing
ValueCounts(df, col) ==
    [v \in {Val(r[col]) : r \in {x \in df : x[col] # None}} |->
        Cardinality({r \in df : r[col] = Some(v)})]

Remove(s, i) == SubSeq(s, 1, i - 1) \o SubSeq(s, i + 1, Len(s))

RECURSIVE nlargest(_, _, _)
\* nlargest(n, col) with keep='first': the n rows of largest col, largest
\* first, equal ones in their order of appearance
nlargest(n, s, col) ==
    IF n = 0 \/ s = <<>> THEN <<>>
    ELSE LET i == CHOOSE k \in 1..Len(s) :
                    /\ \A j \in 1..Len(s) : s[j][col] <= s[k][col]
                    /\ \A j \in 1..(k - 1) : s[j][col] < s[k][col]
         IN  <<s[i]>> \o nlargest(n - 1, Remove(s, i), col)

\* days of the months of 2024
MonthDays == <<31, 29, 31, 30, 31, 30, 31, 31, 30, 31, 30, 31>>

RECURSIVE MonthDay(_, _)
MonthDay(n, m) ==
    IF n <= MonthDays[m] THEN <<m, n>> ELSE MonthDay(n - MonthDays[m], m + 1)

\* strftime('%Y-%m-%d'): the zero-padded fields <<year, month, day>>, whose
\* order as a tuple is the order of the string
Strftime(d) ==
    IF d < 1 THEN <<2023, 12, 31 + d>>
    ELSE <<2024>> \o MonthDay(d, 1)

\* (x * 100).round(2) of the quotient c / total, in hundredths: round half
\* to even
Percentage(c, total) ==
    LET q == (c * 10000) \div total
        r == (c * 10000) % total
    IN  IF 2 * r > total \/ (2 * r = total /\ q % 2 = 1) THEN q + 1 ELSE q

(***************************************************************************)
(* The aggregation views, each on a loaded DataFrame                       *)
(***************************************************************************)
\* BookingStats without the df.empty short-circuit
BookingStatsUnguarded(df) ==
    [total_bookings |-> Cardinality(df),
     total_revenue |-> SumAmount(df),
     average_booking_value |-> MeanAmount(df),
     bookings_by_status |-> ValueCounts(df, "status"),
     bookings_by_class |-> ValueCounts(df, "class_name")]

BookingStats(df) ==
    IF df = {}
    THEN [total_bookings |-> 0, total_revenue |-> 0,
          average_booking_value |-> <<0, 1>>,
          bookings_by_status |-> <<>>, bookings_by_class |-> <<>>]
    ELSE [total_bookings |-> Cardinality(df),
          total_revenue |-> SumAmount(df),
          average_booking_value |-> MeanAmount(df),
          bookings_by_status |-> ValueCounts(df, "status"),
          bookings_by_class |-> ValueCounts(df, "class_name")]

RevenueByDate(df) ==
    LET ks == GroupKeys(df, <<"booking_date">>)
    IN  [i \in 1..Len(ks) |->
            [date |-> Strftime(ks[i][1]),
             revenue |-> SumAmount(Group(df, <<"booking_date">>, ks[i]))]]

RevenueByClass(df) ==
    LET ks == GroupKeys(df, <<"class_name">>)
    IN  [i \in 1..Len(ks) |->
            [class |-> StrOrder[ks[i][1]],
             revenue |-> SumAmount(Group(df, <<"class_name">>, ks[i]))]]

RevenueByRoute(df) ==
    LET ks == GroupKeys(df, <<"route">>)
        all == [i \in 1..Len(ks) |->
                 LET g == Group(df, <<"route">>, ks[i])
                 IN  [route |-> Val((CHOOSE r \in g : TRUE).route),
                      revenue |-> SumAmount(g)]]
    IN  nlargest(TopRoutesByRevenue, all, "revenue")

RevenueStats(df) ==
    IF df = {}
    THEN [total_revenue |-> 0, revenue_by_date |-> <<>>,
          revenue_by_class |-> <<>>, revenue_by_route |-> <<>>]
    ELSE [total_revenue |-> SumAmount(df),
          revenue_by_date |-> RevenueByDate(df),
          revenue_by_class |-> RevenueByClass(df),
          revenue_by_route |-> RevenueByRoute(df)]

RouteCols == <<"origin_station", "destination_station", "route">>

RouteStats(df) ==
    LET ks == GroupKeys(df, RouteCols)
    IN  [i \in 1..Len(ks) |->
            LET g == Group(df, RouteCols, ks[i])
            IN  [origin |-> StrOrder[ks[i][1]],
                 destination |-> StrOrder[ks[i][2]],
                 booking_count |-> Cardinality(g),
                 total_revenue |-> SumAmount(g),
                 average_price |-> MeanAmount(g)]]

PopularRoutes(df, limit) ==
    IF df = {} THEN <<>> ELSE nlargest(limit, RouteStats(df), "booking_count")

\* DailyTrends counting the amount_paid column instead of the id column
DailyTrendsCountAmounts(df) ==
    IF df = {} THEN <<>>
    ELSE LET ks == GroupKeys(df, <<"booking_date">>)
         IN  [i \in 1..Len(ks) |->
                LET g == Group(df, <<"booking_date">>, ks[i])
                IN  [date |-> Strftime(ks[i][1]),
                     booking_count |-> CountAmount(g),
                     revenue |-> SumAmount(g)]]

DailyTrends(df) ==
    IF df = {} THEN <<>>
    ELSE LET ks == GroupKeys(df, <<"booking_date">>)
         IN  [i \in 1..Len(ks) |->
                LET g == Group(df, <<"booking_date">>, ks[i])
                IN  [date |-> Strftime(ks[i][1]),
                     booking_count |-> Cardinality(g),
                     revenue |-> SumAmount(g)]]

ClassStats(df) ==
    LET ks == GroupKeys(df, <<"class_name">>)
    IN  [i \in 1..Len(ks) |->
            LET g == Group(df, <<"class_name">>, ks[i])
            IN  [class_name |-> StrOrder[ks[i][1]],
                 booking_count |-> Cardinality(g),
                 revenue |-> SumAmount(g)]]

RECURSIVE SumField(_, _)
SumField(s, col) ==
    IF s = <<>> THEN 0 ELSE s[1][col] + SumField(Tail(s), col)

ClassDistribution(df) ==
    IF df = {} THEN <<>>
    ELSE LET cs == ClassStats(df)
             total_bookings == SumField(cs, "booking_count")
         IN  [i \in 1..Len(cs) |->
                [class_name |-> cs[i].class_name,
                 booking_count |-> cs[i].booking_count,
                 revenue |-> cs[i].revenue,
                 percentage |-> Percentage(cs[i].booking_count, total_bookings)]]

PassengerCols == <<"passenger_name", "email_address">>

TopSpenders(df, limit) ==
    IF df = {} THEN <<>>
    ELSE LET ks == GroupKeys(df, PassengerCols)
             stats == [i \in 1..Len(ks) |->
                        LET g == Group(df, PassengerCols, ks[i])
                        IN  [name |-> StrOrder[ks[i][1]],
                             email |-> StrOrder[ks[i][2]],
                             total_bookings |-> Cardinality(g),
                             total_spent |-> SumAmount(g)]]
         IN  nlargest(limit, stats, "total_spent")

JourneyPerformance(df, limit) ==
    IF df = {} THEN <<>>
    ELSE LET ks == GroupKeys(df, <<"journey_name">>)
             stats == [i \in 1..Len(ks) |->
                        LET g == Group(df, <<"journey_name">>, ks[i])
                        IN  [journey_name |-> StrOrder[ks[i][1]],
                             total_bookings |-> Cardinality(g),
                             total_revenue |-> SumAmount(g),
                             average_booking_value |-> MeanAmount(g)]]
         IN  nlargest(limit, stats, "total_bookings")

(***************************************************************************)
(* The handlers as functions of the store and the clock: each loads its    *)
(* DataFrame with get_bookings_df and returns its view of it               *)
(***************************************************************************)
get_booking_statistics(store, t, start_date, end_date) ==
    BookingStats(get_bookings_df(store, t, start_date, end_date))

get_revenue_statistics(store, t, start_date, end_date) ==
    RevenueStats(get_bookings_df(store, t, start_date, end_date))

get_popular_routes(store, t, limit, start_date, end_date) ==
    PopularRoutes(get_bookings_df(store, t, start_date, end_date), limit)

\* the window of get_daily_booking_trends: computed from its own reading
\* of the clock
DailyWindow(t, n) == <<Some(t - n), Some(t)>>

get_daily_booking_trends(store, t, n) ==
    DailyTrends(get_bookings_df(store, t, DailyWindow(t, n)[1], DailyWindow(t, n)[2]))

get_class_distribution(store, t, start_date, end_date) ==
    ClassDistribution(get_bookings_df(store, t, start_date, end_date))

get_top_spending_passengers(store, t, limit, start_date, end_date) ==
    TopSpenders(get_bookings_df(store, t, start_date, end_date), limit)

get_journey_performance(store, t, limit, start_date, end_date) ==
    JourneyPerformance(get_bookings_df(store, t, start_date, end_date), limit)

(***************************************************************************)
(* Requests                                                                *)
(***************************************************************************)
\* a finished request: its handler, arguments, the rows it loaded, and the
\* response ("ok" with a body, or "error" when an exception left the handler)
Reply(op, args, rows, body) ==
    [op |-> op, args |-> args, rows |-> rows, status |-> "ok", body |-> body]

Failure(op, args) ==
    [op |-> op, args |-> args, rows |-> {}, status |-> "error", body |-> <<>>]

NoReply == [op |-> "none", args |-> <<>>, rows |-> {}, status |-> "none", body |-> <<>>]

SubViews == {"overview", "daily_trends", "popular_routes", "class_distribution"}

NoParts == [v \in SubViews |-> None]

storeVars == <<booking, next_id, today>>

callVars == <<days, window, parts, params, queries, last_df>>

NoCall ==
    /\ days = 0
    /\ window = None
    /\ parts = NoParts
    /\ params = NoParts
    /\ queries = <<>>
    /\ last_df = None

(***************************************************************************)
(* get_db: the session of a request.  The framework runs get_db up to its  *)
(* yield before it calls the handler and resumes it when the handler has   *)
(* returned or raised.                                                     *)
(***************************************************************************)
\* db = SessionLocal(); yield db
get_db == db' = Some(0)

\* Finally with the closing clause an else clause, which an exception skips
FinallyOnSuccess(status) == status = "ok"

\* whether the closing clause of get_db runs when the request ended with
\* status: a finally clause runs on the return and on the exception
Finally(status) == TRUE

\* get_db resumed after its yield: finally: db.close()
CloseSession ==
    /\ pc = "done"
    /\ pc' = "exit"
    /\ db' = IF Finally(resp.status) THEN Some(Val(db) + 1) ELSE db
    /\ UNCHANGED <<storeVars, resp, callVars>>

\* GET /bookings/stats
GetBookingStatistics ==
    \E start_date \in ArgDates, end_date \in ArgDates :
        /\ pc = "idle"
        /\ pc' = "done"
        /\ resp' = Reply("get_booking_statistics", <<start_date, end_date>>,
                         get_bookings_df(booking, today, start_date, end_date),
                         get_booking_statistics(booking, today, start_date, end_date))
        /\ get_db
        /\ UNCHANGED <<storeVars, callVars>>

\* GET /revenue/stats
GetRevenueStatistics ==
    \E start_date \in ArgDates, end_date \in ArgDates :
        /\ pc = "idle"
        /\ pc' = "done"
        /\ resp' = Reply("get_revenue_statistics", <<start_date, end_date>>,
                         get_bookings_df(booking, today, start_date, end_date),
                         get_revenue_statistics(booking, today, start_date, end_date))
        /\ get_db
        /\ UNCHANGED <<storeVars, callVars>>

\* GET /popular-routes
GetPopularRoutes ==
    \E limit \in 1..MaxLimit, start_date \in ArgDates, end_date \in ArgDates :
        /\ pc = "idle"
        /\ pc' = "done"
        /\ resp' = Reply("get_popular_routes", <<limit, start_date, end_date>>,
                         get_bookings_df(booking, today, start_date, end_date),
                         get_popular_routes(booking, today, limit, start_date, end_date))
        /\ get_db
        /\ UNCHANGED <<storeVars, callVars>>

\* GET /daily-trends
GetDailyBookingTrends ==
    \E n \in 1..MaxDays :
        /\ pc = "idle"
        /\ pc' = "done"
        /\ resp' = Reply("get_daily_booking_trends", <<n>>,
                         get_bookings_df(booking, today, DailyWindow(today, n)[1],
                                         DailyWindow(today, n)[2]),
                         get_daily_booking_trends(booking, today, n))
        /\ get_db
        /\ UNCHANGED <<storeVars, callVars>>

\* GET /class-distribution
GetClassDistribution ==
    \E start_date \in ArgDates, end_date \in ArgDates :
        /\ pc = "idle"
        /\ pc' = "done"
        /\ resp' = Reply("get_class_distribution", <<start_date, end_date>>,
                         get_bookings_df(booking, today, start_date, end_date),
                         get_class_distribution(booking, today, start_date, end_date))
        /\ get_db
        /\ UNCHANGED <<storeVars, callVars>>

\* GET /passengers/top-spenders
GetTopSpendingPassengers ==
    \E limit \in 1..MaxLimit, start_date \in ArgDates, end_date \in ArgDates :
        /\ pc = "idle"
        /\ pc' = "done"
        /\ resp' = Reply("get_top_spending_passengers", <<limit, start_date, end_date>>,
                         get_bookings_df(booking, today, start_date, end_date),
                         get_top_spending_passengers(booking, today, limit,
                                                     start_date, end_date))
        /\ get_db
        /\ UNCHANGED <<storeVars, callVars>>

\* GET /journeys/performance
GetJourneyPerformance ==
    \E limit \in 1..MaxLimit, start_date \in ArgDates, end_date \in ArgDates :
        /\ pc = "idle"
        /\ pc' = "done"
        /\ resp' = Reply("get_journey_performance", <<limit, start_date, end_date>>,
                         get_bookings_df(booking, today, start_date, end_date),
                         get_journey_performance(booking, today, limit,
                                                 start_date, end_date))
        /\ get_db
        /\ UNCHANGED <<storeVars, callVars>>

\* a direct call of the loader
LoadBookings ==
    \E start_date \in ArgDates, end_date \in ArgDates :
        /\ pc = "idle"
        /\ pc' = "done"
        /\ resp' = Reply("get_bookings_df", <<start_date, end_date>>,
                         get_bookings_df(booking, today, start_date, end_date),
                         <<>>)
        /\ get_db
        /\ UNCHANGED <<storeVars, callVars>>

(***************************************************************************)
(* The view handlers applied to every store built from BookingInputs       *)
(***************************************************************************)
\* the request scope has ended: the response leaves the server and the
\* next request may come
Send ==
    /\ pc = "exit"
    /\ pc' = "idle"
    /\ resp' = NoReply
    /\ days' = 0
    /\ window' = None
    /\ parts' = NoParts
    /\ params' = NoParts
    /\ queries' = <<>>
    /\ last_df' = None
    /\ UNCHANGED <<storeVars, db>>

InitViews ==
    /\ booking \in Stores
    /\ next_id = Cardinality(booking) + 1
    /\ today = Today0
    /\ resp = NoReply
    /\ pc = "idle"
    /\ db = None
    /\ NoCall

NextViews ==
    \/ LoadBookings
    \/ GetBookingStatistics
    \/ GetRevenueStatistics
    \/ GetPopularRoutes
    \/ GetDailyBookingTrends
    \/ GetClassDistribution
    \/ GetTopSpendingPassengers
    \/ GetJourneyPerformance
    \/ CloseSession
    \/ Send

SpecViews == InitViews /\ [][NextViews]_vars

(***************************************************************************)
(* The store and the clock change while requests are served                *)
(***************************************************************************)
\* the bookings inserted while the dashboard is observed: today's First
\* class booking, an Economy booking, and a booking of the class whose
\* name is NULL
MutationInputs == {1, 9, 10}

InsertBooking ==
    \E i \in MutationInputs :
        /\ next_id <= MaxInserts
        /\ booking' = booking \cup {WithId(next_id, BookingInputs[i])}
        /\ next_id' = next_id + 1
        /\ UNCHANGED <<today, resp, pc, callVars, db>>

DeleteBooking ==
    \E b \in booking :
        /\ booking' = booking \ {b}
        /\ UNCHANGED <<next_id, today, resp, pc, callVars, db>>

\* midnight passes
AdvanceDay ==
    /\ today < Today0 + MaxAdvance
    /\ today' = today + 1
    /\ UNCHANGED <<booking, next_id, resp, pc, callVars, db>>

(***************************************************************************)
(* get_analytics_dashboard: four sub-calls, each with a store query        *)
(***************************************************************************)
\* the statement after the sub-call at position p
After(p) ==
    CASE p = "overview" -> "daily_trends"
      [] p = "daily_trends" -> "popular_routes"
      [] p = "popular_routes" -> "class_distribution"
      [] p = "class_distribution" -> "compose"

\* Raised with the sub-call's exception caught and the handler going on
RaisedSwallowed(p) == After(p)

\* where control goes when the store query of the sub-call at p raises:
\* no try/except encloses the sub-calls, the exception leaves the handler
Raised(p) == "raised"

Unwrap(x) == IF x = None THEN None ELSE Val(x)

\* Loaded with the DataFrame of the first sub-call handed on to the later
\* ones
LoadedOnce(earlier, fresh) == IF earlier # None THEN Val(earlier) ELSE fresh

\* the DataFrame a sub-call works on, given the one the sub-call before it
\* loaded and the rows the store holds now: every sub-call runs
\* get_bookings_df itself, and pd.read_sql reads the store as it is then
Loaded(earlier, fresh) == fresh

\* GET /dashboard: the handler reads the clock and computes its window
DashboardStart ==
    \E n \in 1..MaxDays :
        /\ pc = "idle"
        /\ pc' = "overview"
        /\ days' = n
        /\ window' = Some(<<today - n, today>>)
        /\ get_db
        /\ UNCHANGED <<storeVars, resp, parts, params, queries, last_df>>

\* overview = get_booking_statistics(start_date, end_date, db)
DashOverview ==
    LET start_date == Some(Val(window)[1])
        end_date == Some(Val(window)[2])
    IN  /\ pc = "overview"
        /\ last_df' = Some(Loaded(last_df, get_bookings_df(booking, today,
                                                        start_date, end_date)))
        /\ parts' = [parts EXCEPT !.overview = Some(BookingStats(Val(last_df')))]
        /\ params' = [params EXCEPT !.overview =
                        Some(Window(today, start_date, end_date))]
        /\ queries' = Append(queries, "ok")
        /\ pc' = After(pc)
        /\ UNCHANGED <<storeVars, resp, days, window, db>>

\* daily_trends = get_daily_booking_trends(days, db)
DashDailyTrends ==
    /\ pc = "daily_trends"
    /\ last_df' = Some(Loaded(last_df, get_bookings_df(booking, today,
                                           DailyWindow(today, days)[1],
                                           DailyWindow(today, days)[2])))
    /\ parts' = [parts EXCEPT !.daily_trends = Some(DailyTrends(Val(last_df')))]
    /\ params' = [params EXCEPT !.daily_trends =
                    Some(Window(today, DailyWindow(today, days)[1],
                                DailyWindow(today, days)[2]))]
    /\ queries' = Append(queries, "ok")
    /\ pc' = After(pc)
    /\ UNCHANGED <<storeVars, resp, days, window, db>>

\* popular_routes = get_popular_routes(10, start_date, end_date, db)
DashPopularRoutes ==
    LET start_date == Some(Val(window)[1])
        end_date == Some(Val(window)[2])
    IN  /\ pc = "popular_routes"
        /\ last_df' = Some(Loaded(last_df, get_bookings_df(booking, today,
                                                        start_date, end_date)))
        /\ parts' = [parts EXCEPT !.popular_routes =
                        Some(PopularRoutes(Val(last_df'), DashboardLimit))]
        /\ params' = [params EXCEPT !.popular_routes =
                        Some(Window(today, start_date, end_date))]
        /\ queries' = Append(queries, "ok")
        /\ pc' = After(pc)
        /\ UNCHANGED <<storeVars, resp, days, window, db>>

\* class_distribution = get_class_distribution(start_date, end_date, db)
DashClassDistribution ==
    LET start_date == Some(Val(window)[1])
        end_date == Some(Val(window)[2])
    IN  /\ pc = "class_distribution"
        /\ last_df' = Some(Loaded(last_df, get_bookings_df(booking, today,
                                                        start_date, end_date)))
        /\ parts' = [parts EXCEPT !.class_distribution =
                        Some(ClassDistribution(Val(last_df')))]
        /\ params' = [params EXCEPT !.class_distribution =
                        Some(Window(today, start_date, end_date))]
        /\ queries' = Append(queries, "ok")
        /\ pc' = After(pc)
        /\ UNCHANGED <<storeVars, resp, days, window, db>>

\* pd.read_sql raises in the sub-call the handler is at
QueryFails ==
    /\ pc \in SubViews
    /\ queries' = Append(queries, "fail")
    /\ pc' = Raised(pc)
    /\ UNCHANGED <<storeVars, resp, days, window, parts, params, last_df, db>>

\* return schemas.AnalyticsDashboardResponse(...)
DashboardReturn ==
    /\ pc = "compose"
    /\ pc' = "done"
    /\ resp' = Reply("get_analytics_dashboard", <<days>>, {},
                     [v \in SubViews |-> Unwrap(parts[v])])
    /\ last_df' = None
    /\ UNCHANGED <<storeVars, days, window, parts, params, queries, db>>

\* the exception reaches the framework: a server error, no body
DashboardError ==
    /\ pc = "raised"
    /\ pc' = "done"
    /\ resp' = Failure("get_analytics_dashboard", <<days>>)
    /\ last_df' = None
    /\ UNCHANGED <<storeVars, days, window, parts, params, queries, db>>

Init ==
    /\ booking = {}
    /\ next_id = 1
    /\ today = Today0
    /\ resp = NoReply
    /\ pc = "idle"
    /\ db = None
    /\ NoCall

Next ==
    \/ InsertBooking
    \/ DeleteBooking
    \/ AdvanceDay
    \/ DashboardStart
    \/ DashOverview
    \/ DashDailyTrends
    \/ DashPopularRoutes
    \/ DashClassDistribution
    \/ QueryFails
    \/ DashboardReturn
    \/ DashboardError
    \/ CloseSession
    \/ Send

Spec == Init /\ [][Next]_vars

\* Next with the store and the clock changing between requests only: no
\* booking is inserted or deleted and no midnight passes while a request
\* is in flight
NextQuiet ==
    \/ pc = "idle" /\ InsertBooking
    \/ pc = "idle" /\ DeleteBooking
    \/ pc = "idle" /\ AdvanceDay
    \/ DashboardStart
    \/ DashOverview
    \/ DashDailyTrends
    \/ DashPopularRoutes
    \/ DashClassDistribution
    \/ QueryFails
    \/ DashboardReturn
    \/ DashboardError
    \/ CloseSession
    \/ Send

SpecQuiet == Init /\ [][NextQuiet]_vars

\* the positions of a request
Positions ==
    {"idle", "overview", "daily_trends", "popular_routes", "class_distribution",
     "compose", "raised", "done", "exit"}

\* the request in flight goes on to its next position: the server thread
\* runs on, a store query returns or raises, the framework resumes get_db
\* and ends the scope
Advance == pc # "idle" /\ pc' \in Positions \ {pc}

\* SpecQuiet with a server that does not abandon the request in flight
SpecLive == Init /\ [][NextQuiet]_vars /\ WF_pc(Advance)

(***************************************************************************)
(* Properties                                                              *)
(***************************************************************************)
\* every foreign key of booking b has a matching row
Resolves(b) ==
    /\ \E s \in train_station : s.id = b.starting_station_id
    /\ \E s \in train_station : s.id = b.ending_station_id
    /\ \E c \in carriage_class : c.id = b.ticket_class_id
    /\ \E x \in booking_status : x.id = b.status_id
    /\ \E x \in passenger : x.id = b.passenger_id
    /\ \E j \in train_journey : j.id = b.train_journey_id

InRange(b, lo, hi) ==
    b.booking_date # None /\ lo <= Val(b.booking_date) /\ Val(b.booking_date) <= hi

BothSupplied(args) ==
    args[1] # None /\ args[2] # None /\ Val(args[1]) <= Val(args[2])

\* C1: called with both bounds, start_date <= end_date, get_bookings_df
\* returns exactly one row per booking whose booking_date lies in
\* [start_date, end_date], both ends included, and whose six references
\* resolve, and no other row.
C1_LoaderExact ==
    (pc = "done" /\ resp.op = "get_bookings_df" /\ BothSupplied(resp.args)) =>
        LET lo == Val(resp.args[1])
            hi == Val(resp.args[2])
        IN  /\ \A b \in booking :
                (InRange(b, lo, hi) /\ Resolves(b)) =>
                    Cardinality({r \in resp.rows : r.id = b.id}) = 1
            /\ \A r \in resp.rows :
                \E b \in booking :
                    r.id = b.id /\ InRange(b, lo, hi) /\ Resolves(b)
            /\ Cardinality(resp.rows) =
                 Cardinality({b \in booking : InRange(b, lo, hi) /\ Resolves(b)})

\* the loader ran on [yesterday, today] and returned a booking of each end
\* of the window while the store also holds a booking it must leave out
C1_Witness ==
    /\ pc = "done"
    /\ resp.op = "get_bookings_df"
    /\ resp.args = <<Some(Today0 - 1), Some(Today0)>>
    /\ \E r \in resp.rows : r.booking_date = Today0 - 1
    /\ \E r \in resp.rows : r.booking_date = Today0
    /\ \E b \in booking : ~Resolves(b) \/ ~InRange(b, Today0 - 1, Today0)

\* what the handler op returns for args on a given store
ViewResult(op, args, store) ==
    CASE op = "get_booking_statistics" ->
            get_booking_statistics(store, today, args[1], args[2])
      [] op = "get_revenue_statistics" ->
            get_revenue_statistics(store, today, args[1], args[2])
      [] op = "get_popular_routes" ->
            get_popular_routes(store, today, args[1], args[2], args[3])
      [] op = "get_daily_booking_trends" ->
            get_daily_booking_trends(store, today, args[1])
      [] op = "get_class_distribution" ->
            get_class_distribution(store, today, args[1], args[2])
      [] op = "get_top_spending_passengers" ->
            get_top_spending_passengers(store, today, args[1], args[2], args[3])
      [] op = "get_journey_performance" ->
            get_journey_performance(store, today, args[1], args[2], args[3])

Views ==
    {"get_booking_statistics", "get_revenue_statistics", "get_popular_routes",
     "get_daily_booking_trends", "get_class_distribution",
     "get_top_spending_passengers", "get_journey_performance"}

\* C2: a booking with a reference that matches no row is left out of every
\* view: what a view returns on the store is what it returns on the store
\* without that booking.
C2_DanglingExcluded ==
    (pc = "done" /\ resp.op \in Views) =>
        \A b \in booking :
            ~Resolves(b) => resp.body = ViewResult(resp.op, resp.args, booking \ {b})

\* a view returned a result that is not empty from a store that holds a
\* dangling booking dated inside the window
C2_Witness ==
    /\ pc = "done"
    /\ resp.op = "get_class_distribution"
    /\ resp.body # <<>>
    /\ \E b \in booking : ~Resolves(b) /\ b.booking_date = Some(Today0)

Abs(x) == IF x < 0 THEN 0 - x ELSE x

\* C3: on a row set that is not empty the booking_count entries of the
\* class distribution add up to the number of rows (the total_bookings of
\* the booking statistics), and the percentages add up to 100 within the
\* rounding error of half a hundredth per entry.
C3_ClassCountsCoverRows ==
    (pc = "done" /\ resp.op = "get_class_distribution" /\ resp.rows # {}) =>
        /\ SumField(resp.body, "booking_count") = Cardinality(resp.rows)
        /\ SumField(resp.body, "booking_count") = BookingStats(resp.rows).total_bookings
        /\ 2 * Abs(SumField(resp.body, "percentage") - 10000) <= Len(resp.body)

\* C4: the total_revenue of the booking statistics is the sum of the
\* revenue_by_class entries of the revenue statistics of the same rows.
C4_RevenueByClassCoversTotal ==
    (pc = "done" /\ resp.op = "get_revenue_statistics") =>
        BookingStats(resp.rows).total_revenue =
            SumField(resp.body.revenue_by_class, "revenue")

\* C5: on an empty row set no view fails; the booking statistics are all
\* zero with empty mappings, the revenue statistics are zero with three
\* empty lists, and the five list views return the empty list.
C5_EmptyRowSet ==
    (pc = "done" /\ resp.op \in Views /\ resp.rows = {}) =>
        /\ resp.status = "ok"
        /\ resp.op = "get_booking_statistics" =>
              /\ resp.body.total_bookings = 0
              /\ resp.body.total_revenue = 0
              /\ resp.body.average_booking_value = <<0, 1>>
              /\ DOMAIN resp.body.bookings_by_status = {}
              /\ DOMAIN resp.body.bookings_by_class = {}
        /\ resp.op = "get_revenue_statistics" =>
              /\ resp.body.total_revenue = 0
              /\ resp.body.revenue_by_date = <<>>
              /\ resp.body.revenue_by_class = <<>>
              /\ resp.body.revenue_by_route = <<>>
        /\ resp.op \notin {"get_booking_statistics", "get_revenue_statistics"} =>
              resp.body = <<>>

\* the booking statistics were asked of a store that holds bookings, none
\* of them in the window
C5_Witness ==
    /\ pc = "done"
    /\ resp.op = "get_booking_statistics"
    /\ resp.rows = {}
    /\ booking # {}

\* the routes of a row set: its (origin, destination) pairs
RoutesOf(rows) == {<<r.origin_station, r.destination_station>> : r \in rows}

RowsOfRoute(rows, p) ==
    {r \in rows : <<r.origin_station, r.destination_station>> = p}

Min(a, b) == IF a <= b THEN a ELSE b

\* C6: get_popular_routes returns min(limit, number of distinct routes)
\* entries in descending order of booking_count, and no route left out has
\* more bookings than a route returned.
C6_TopRoutes ==
    (pc = "done" /\ resp.op = "get_popular_routes") =>
        LET limit == resp.args[1]
            routes == RoutesOf(resp.rows)
            returned == {<<Some(resp.body[i].origin), Some(resp.body[i].destination)>> :
                            i \in 1..Len(resp.body)}
        IN  /\ Len(resp.body) = Min(limit, Cardinality(routes))
            /\ \A i \in 1..Len(resp.body) : \A j \in 1..Len(resp.body) :
                  i < j => resp.body[i].booking_count >= resp.body[j].booking_count
            /\ \A i \in 1..Len(resp.body) : \A p \in routes \ returned :
                  resp.body[i].booking_count >= Cardinality(RowsOfRoute(resp.rows, p))

\* C7: every entry of get_popular_routes stands for one (origin,
\* destination) pair of the row set, no pair has two entries, and the entry
\* holds the number of the pair's rows, the sum of their amount_paid and,
\* as average_price, that sum divided by that number.
C7_RouteEntries ==
    (pc = "done" /\ resp.op = "get_popular_routes") =>
        /\ \A i \in 1..Len(resp.body) :
              LET e == resp.body[i]
                  g == RowsOfRoute(resp.rows, <<Some(e.origin), Some(e.destination)>>)
              IN  /\ g # {}
                  /\ e.booking_count = Cardinality(g)
                  /\ e.total_revenue = SumAmount(g)
                  /\ e.average_price = Frac(e.total_revenue, e.booking_count)
        /\ \A i \in 1..Len(resp.body) : \A j \in 1..Len(resp.body) :
              (resp.body[i].origin = resp.body[j].origin
                 /\ resp.body[i].destination = resp.body[j].destination) => i = j

\* C8: get_daily_booking_trends returns one entry per booking_date of the
\* row set and no other, in strictly ascending order of date, each with
\* the number of the date's rows and the sum of their amount_paid.
C8_DailyTrends ==
    (pc = "done" /\ resp.op = "get_daily_booking_trends") =>
        LET dates == {r.booking_date : r \in resp.rows}
        IN  /\ Len(resp.body) = Cardinality(dates)
            /\ \A d \in dates :
                  \E i \in 1..Len(resp.body) :
                      /\ resp.body[i].date = Strftime(d)
                      /\ resp.body[i].booking_count =
                            Cardinality({r \in resp.rows : r.booking_date = d})
                      /\ resp.body[i].revenue =
                            SumAmount({r \in resp.rows : r.booking_date = d})
            /\ \A i \in 1..Len(resp.body) : \A j \in 1..Len(resp.body) :
                  i < j => KeyLt(resp.body[i].date, resp.body[j].date)

\* the trends of the last day hold yesterday's and today's entry, one of
\* them of two bookings with amounts 1 and 2
C8_Witness ==
    /\ pc = "done"
    /\ resp.op = "get_daily_booking_trends"
    /\ resp.args = <<1>>
    /\ Len(resp.body) = 2
    /\ \E i \in 1..2 : resp.body[i].booking_count = 2 /\ resp.body[i].revenue = 3

Range(s) == {s[i] : i \in 1..Len(s)}

\* C9: the four sub-queries of one dashboard call run with one window: the
\* <<start_date, end_date>> of every sub-query is the pair the handler
\* computed.
C9_SameWindow ==
    \A v \in SubViews : params[v] # None => params[v] = window

\* C10: when a store query of the dashboard fails the call answers with an
\* error and no composite; a composite is returned only after four queries
\* that all succeeded; nothing is queried after a failure.
C10_AllOrNothing ==
    /\ Len(queries) <= Cardinality(SubViews)
    /\ \A i \in 1..Len(queries) : queries[i] = "fail" => i = Len(queries)
    /\ (pc = "done" /\ resp.op = "get_analytics_dashboard") =>
          /\ "fail" \in Range(queries) => (resp.status = "error" /\ resp.body = <<>>)
          /\ resp.status = "ok" =>
                /\ queries = <<"ok", "ok", "ok", "ok">>
                /\ \A v \in SubViews : parts[v] # None /\ resp.body[v] = Val(parts[v])

\* the third query of a dashboard call failed after two that succeeded,
\* and the call answered with an error
C10_Witness ==
    /\ pc = "done"
    /\ resp.op = "get_analytics_dashboard"
    /\ queries = <<"ok", "ok", "fail">>
    /\ resp.status = "error"
    /\ booking # {}

\* C11: the session a request got from get_db is closed exactly once on
\* every exit path: it is open (no close() yet) while the request is
\* handled, the only change to it is one close() by get_db once the handler
\* has returned or raised, a request whose scope has ended leaves its
\* session closed once and none open, and every open session is eventually
\* closed.
C11_SessionClosed ==
    /\ [](pc \notin {"idle", "exit"} => db = Some(0))
    /\ [](pc = "exit" => db = Some(1))
    /\ [](pc = "idle" => db \in {None, Some(1)})
    /\ [][(db # None /\ db' # db /\ db' # Some(0)) =>
            (pc = "done" /\ db = Some(0) /\ db' = Some(1))]_vars
    /\ (db = Some(0)) ~> (db = Some(1))

\* a dashboard call whose second query raised has ended with an error, and
\* its session is closed
C11_Witness ==
    /\ pc = "exit"
    /\ resp.op = "get_analytics_dashboard"
    /\ resp.status = "error"
    /\ queries = <<"ok", "fail">>
    /\ db = Some(1)

\* the rows the sub-call v of the dashboard call in flight finds in the
\* store as it is now
RowsNow(v) ==
    IF v = "daily_trends"
    THEN get_bookings_df(booking, today, DailyWindow(today, days)[1],
                         DailyWindow(today, days)[2])
    ELSE get_bookings_df(booking, today, Some(Val(window)[1]), Some(Val(window)[2]))

\* the result of sub-call v on the DataFrame df
SubView(v, df) ==
    CASE v = "overview" -> BookingStats(df)
      [] v = "daily_trends" -> DailyTrends(df)
      [] v = "popular_routes" -> PopularRoutes(df, DashboardLimit)
      [] v = "class_distribution" -> ClassDistribution(df)

DateRangeOps ==
    {"get_bookings_df", "get_booking_statistics", "get_revenue_statistics",
     "get_popular_routes", "get_class_distribution",
     "get_top_spending_passengers", "get_journey_performance"}

DateArgs(op, args) ==
    IF Len(args) = 3 THEN <<args[2], args[3]>> ELSE <<args[1], args[2]>>

WithoutDates(op, args) ==
    IF Len(args) = 3 THEN <<args[1], None, None>> ELSE <<None, None>>

\* C13: called with exactly one of start_date and end_date, get_bookings_df
\* returns the resolvable bookings of [today - 30 days, today], whatever
\* the supplied bound is, and every date-range view returns what it
\* returns when called with neither bound.
C13_OneBoundDiscarded ==
    (pc = "done" /\ resp.op \in DateRangeOps
       /\ (DateArgs(resp.op, resp.args)[1] = None) #
            (DateArgs(resp.op, resp.args)[2] = None)) =>
        /\ {r.id : r \in resp.rows} =
              {b.id : b \in {x \in booking :
                                InRange(x, today - DefaultDays, today) /\ Resolves(x)}}
        /\ resp.op # "get_bookings_df" =>
              resp.body = ViewResult(resp.op, WithoutDates(resp.op, resp.args), booking)

\* the loader was called with start_date = today alone and returned
\* yesterday's booking, while the booking of 31 days ago stayed out
C13_Witness ==
    /\ pc = "done"
    /\ resp.op = "get_bookings_df"
    /\ resp.args = <<Some(Today0), None>>
    /\ \E r \in resp.rows : r.booking_date = Today0 - 1
    /\ \E b \in booking : b.booking_date = Some(Today0 - DefaultDays - 1)

\* C14: a composite returned by a dashboard call during which the store
\* and the calendar date did not change is consistent: the total_bookings
\* of the overview is the sum of booking_count over the daily trends and
\* over the class distribution, and its total_revenue is the sum of
\* revenue over the daily trends and over the class distribution.
C14_CompositeConsistent ==
    (pc = "done" /\ resp.op = "get_analytics_dashboard" /\ resp.status = "ok") =>
        /\ resp.body.overview.total_bookings =
              SumField(resp.body.daily_trends, "booking_count")
        /\ resp.body.overview.total_bookings =
              SumField(resp.body.class_distribution, "booking_count")
        /\ resp.body.overview.total_revenue =
              SumField(resp.body.daily_trends, "revenue")
        /\ resp.body.overview.total_revenue =
              SumField(resp.body.class_distribution, "revenue")

====
